---- MODULE Spec2Model ----
(***************************************************************************)
(* The phasor registry of PSPhasor: PhasorManager.draw_phasor, get_phasor  *)
(* and clear, in the two implementations the repository ships:             *)
(*   "package": src/PSPhasor/phasor_system.py (registry of dict records)   *)
(*   "legacy" : src/phasor_system.py          (registry of Phasor objects) *)
(*                                                                         *)
(* Numbers.  Coordinates, magnitudes and angles are Python floats in the   *)
(* source.  The model works on the integer grid with angles that are       *)
(* multiples of 90 degrees; an angle in radians is counted in units of     *)
(* pi/2.  An integer n of the model stands for a float within rounding     *)
(* residue of n: np.cos(np.radians(90)) is 6.1e-17 where the model has 0,  *)
(* and a polar phasor drawn at 90 degrees ends at x = 6.1e-17.             *)
(*                                                                         *)
(* Two stored quantities do not tolerate that residue: the angle of a      *)
(* phasor whose end is given as the very point its start was computed to   *)
(* (the code takes arctan2 of the residue), and magnitude and angle of a   *)
(* vector that is not axis-aligned.  The call sets below are chosen so     *)
(* that neither arises: end_x, end_y are passed                            *)
(*   - with an absolute start, on an axis through it (Spec, SpecGeometry), *)
(*   - or in SpecCartesian, where every polar call has angle 0 (np.cos(0)  *)
(*     is 1.0 and np.sin(0) is 0.0, so every coordinate is an exact        *)
(*     integer) and every point lies on the x axis.                        *)
(* Polar calls are drawn from any anchor: end - start is then magnitude    *)
(* times (cos, sin) up to residue, never (0, 0) unless the magnitude is 0, *)
(* in which case end - start is exactly (0.0, 0.0).                        *)
(*                                                                         *)
(* A third such quantity is the sign of a residue in y when x < 0, which   *)
(* decides between 180 and -180: the angles of the polar calls are those   *)
(* for which magnitude * sin is +0.0 or positive in the direction of 180   *)
(* degrees, so the code stores 180.0 wherever the model stores 180.  The   *)
(* angle -180 (for which the package stores -180.0) is outside the model.  *)
(***************************************************************************)
EXTENDS Integers, FiniteSets, TLC

VARIABLES
    impl,      \* which PhasorManager class was constructed
    phasors,   \* self.phasors: name -> stored phasor
    prev,      \* history: self.phasors as it was before the last call
    call,      \* history: the last call and its arguments
    ret,       \* history: the value the last call returned
    err,       \* history: the exception the last call raised, or NoError
    nops,      \* history: number of calls made so far
    added,     \* history: the names whose draw_phasor succeeded since
               \* construction or the last clear()
    fresh      \* shadow: a manager constructed at the last clear() (or at
               \* construction) that has received the same calls since

vars == <<impl, phasors, prev, call, ret, err, nops, added, fresh>>

\* Longest sequence of calls explored.
MaxOps == 3
\* Largest magnitude passed by the callers of SpecGeometry.
MaxMag == 1

(***************************************************************************)
(* Values                                                                  *)
(***************************************************************************)
\* Python's None as a returned value.
NoneValue == [none |-> TRUE]

NoError == "no error"
\* ValueError(f"Phasor '{start_ref}' does not exist.") /
\* ValueError(f"Reference phasor '{start_ref}' not found")
UnknownReference == "ValueError: reference phasor does not exist"
\* ValueError("Either (end_x, end_y) or (magnitude, angle) must be provided.")
MissingGeometry == "ValueError: Either (end_x, end_y) or (magnitude, angle) must be provided."
\* TypeError: unsupported operand type(s) for -: 'NoneType' and 'float'
NoneArithmetic == "TypeError: unsupported operand type(s) for -: 'NoneType' and 'float'"
\* Whatever a drawing step (ax.quiver, ax.annotate, ax.text and the label
\* arithmetic) raises, e.g. TypeError for label_offset="x".
RenderError == "exception raised by a drawing step"

EmptyRegistry == <<>>

(***************************************************************************)
(* numpy, on the grid                                                      *)
(***************************************************************************)
\* np.radians / np.deg2rad: degrees to radians, the result in units of pi/2.
Radians(deg) == deg \div 90

\* np.degrees: radians (in units of pi/2) to degrees.
Degrees(rad) == rad * 90

\* np.cos of an angle in units of pi/2.
Cos(rad) ==
    CASE rad % 4 = 0 -> 1
      [] rad % 4 = 1 -> 0
      [] rad % 4 = 2 -> -1
      [] rad % 4 = 3 -> 0

\* np.sin of an angle in units of pi/2.
Sin(rad) ==
    CASE rad % 4 = 0 -> 0
      [] rad % 4 = 1 -> 1
      [] rad % 4 = 2 -> 0
      [] rad % 4 = 3 -> -1

\* np.sqrt, on the perfect squares (the lengths of axis-aligned vectors).
Sqrt(n) == CHOOSE r \in 0..n : r * r = n

\* np.arctan2(y, x) of an axis-aligned vector, in units of pi/2, with
\* arctan2(0, 0) = 0.  In the calls of the model a y of 0 with x < 0 is, in
\* the code, +0.0 or a positive residue (end_y - start_y after adding
\* magnitude * sin, which is never negative in the directions of 180
\* degrees), so the result is pi; np.arctan2 returns -pi for y = -0.0 or a
\* negative residue.  y = x = 0 is reached with exact zeros only.
Arctan2(y, x) ==
    CASE y = 0 /\ x >= 0 -> 0
      [] y = 0 /\ x < 0 -> 2
      [] x = 0 /\ y > 0 -> 1
      [] x = 0 /\ y < 0 -> -1

\* str.lower() on the phasor types the callers pass.
Lower(s) ==
    CASE s = "Voltage" -> "voltage"
      [] s = "Current" -> "current"
      [] OTHER -> s

(***************************************************************************)
(* Calls.  An optional argument of draw_phasor that the caller omits is    *)
(* absent from c.given (Python: it keeps its default None).  c.renders     *)
(* tells whether the drawing steps of the call complete or raise.          *)
(***************************************************************************)
IsNone(c, arg) == arg \notin c.given

DrawCall(name, geometry, anchor, style) ==
    [op |-> "draw_phasor", name |-> name,
     given |-> geometry.given \cup style.given,
     magnitude |-> geometry.magnitude, angle |-> geometry.angle,
     end_x |-> geometry.end_x, end_y |-> geometry.end_y,
     start_ref |-> anchor.start_ref, ref_point |-> anchor.ref_point,
     start_x |-> anchor.start_x, start_y |-> anchor.start_y,
     phasor_type |-> style.phasor_type, color |-> style.color,
     renders |-> TRUE]

\* The same call with arguments on which a drawing step raises.
RenderFailing(c) == [c EXCEPT !.renders = FALSE]

GetCall(name) == [op |-> "get_phasor", name |-> name]
ClearCall == [op |-> "clear"]
InitCall == [op |-> "__init__"]

(***************************************************************************)
(* PSPhasor/phasor_system.py                                               *)
(***************************************************************************)
\* Mutant of ResolveStart: an unknown reference falls back to the caller's
\* start_x, start_y instead of raising.
ResolveStartLenient(reg, c) ==
    IF c.start_ref # "abs" /\ c.start_ref \in DOMAIN reg
    THEN LET ref_phasor == reg[c.start_ref]
         IN  IF c.ref_point = "end"
             THEN [err |-> NoError, x |-> ref_phasor.end_x, y |-> ref_phasor.end_y]
             ELSE [err |-> NoError, x |-> ref_phasor.start_x, y |-> ref_phasor.start_y]
    ELSE [err |-> NoError, x |-> c.start_x, y |-> c.start_y]

\* Mutant of ResolveStart: the reference is checked, but the start_x,
\* start_y the caller passed are kept.
ResolveStartCallerWins(reg, c) ==
    IF c.start_ref # "abs" /\ c.start_ref \notin DOMAIN reg
    THEN [err |-> UnknownReference]
    ELSE [err |-> NoError, x |-> c.start_x, y |-> c.start_y]

\* Mutant of ResolveStart: the registry is consulted first, so a stored
\* phasor named "abs" is an anchor like any other.
ResolveStartRegistryFirst(reg, c) ==
    IF c.start_ref \in DOMAIN reg
    THEN LET ref_phasor == reg[c.start_ref]
         IN  IF c.ref_point = "end"
             THEN [err |-> NoError, x |-> ref_phasor.end_x, y |-> ref_phasor.end_y]
             ELSE [err |-> NoError, x |-> ref_phasor.start_x, y |-> ref_phasor.start_y]
    ELSE IF c.start_ref # "abs"
         THEN [err |-> UnknownReference]
         ELSE [err |-> NoError, x |-> c.start_x, y |-> c.start_y]

\* Mutant of ResolveStart: ref_point is validated, and a value other than
\* "end" and "start" raises.
ResolveStartValidated(reg, c) ==
    IF c.start_ref # "abs"
    THEN IF c.start_ref \notin DOMAIN reg
         THEN [err |-> UnknownReference]
         ELSE LET ref_phasor == reg[c.start_ref]
              IN  IF c.ref_point = "end"
                  THEN [err |-> NoError, x |-> ref_phasor.end_x, y |-> ref_phasor.end_y]
                  ELSE IF c.ref_point = "start"
                       THEN [err |-> NoError, x |-> ref_phasor.start_x, y |-> ref_phasor.start_y]
                       ELSE [err |-> UnknownReference]
    ELSE [err |-> NoError, x |-> c.start_x, y |-> c.start_y]

\* Step 1 of draw_phasor: the start point, from the anchor.
ResolveStart(reg, c) ==
    IF c.start_ref # "abs"
    THEN IF c.start_ref \notin DOMAIN reg
         THEN [err |-> UnknownReference]
         ELSE LET ref_phasor == reg[c.start_ref]
              IN  IF c.ref_point = "end"
                  THEN [err |-> NoError, x |-> ref_phasor.end_x, y |-> ref_phasor.end_y]
                  ELSE [err |-> NoError, x |-> ref_phasor.start_x, y |-> ref_phasor.start_y]
    ELSE [err |-> NoError, x |-> c.start_x, y |-> c.start_y]

\* Mutant of ResolveEnd: a complete (magnitude, angle) pair is used even
\* when end_x and end_y are given.
ResolveEndPolarFirst(c, start_x, start_y) ==
    IF ~IsNone(c, "magnitude") /\ ~IsNone(c, "angle")
    THEN [err |-> NoError,
          x |-> start_x + c.magnitude * Cos(Radians(c.angle)),
          y |-> start_y + c.magnitude * Sin(Radians(c.angle))]
    ELSE IF IsNone(c, "end_x") /\ IsNone(c, "end_y")
         THEN [err |-> MissingGeometry]
         ELSE IF IsNone(c, "end_x") \/ IsNone(c, "end_y")
              THEN [err |-> NoneArithmetic]
              ELSE [err |-> NoError, x |-> c.end_x, y |-> c.end_y]

\* Step 2 of draw_phasor: the end point.  When exactly one of end_x, end_y
\* is given, step 2 is skipped and the None coordinate reaches the
\* subtraction in the arguments of ax.quiver (step 4), which raises.
ResolveEnd(c, start_x, start_y) ==
    IF IsNone(c, "end_x") /\ IsNone(c, "end_y")
    THEN IF IsNone(c, "magnitude") \/ IsNone(c, "angle")
         THEN [err |-> MissingGeometry]
         ELSE LET angle_rad == Radians(c.angle)
              IN  [err |-> NoError,
                   x |-> start_x + c.magnitude * Cos(angle_rad),
                   y |-> start_y + c.magnitude * Sin(angle_rad)]
    ELSE IF IsNone(c, "end_x") \/ IsNone(c, "end_y")
         THEN [err |-> NoneArithmetic]
         ELSE [err |-> NoError, x |-> c.end_x, y |-> c.end_y]

\* Step 3 of draw_phasor: the colour.
ResolveColor(c) ==
    IF IsNone(c, "color")
    THEN IF Lower(c.phasor_type) = "voltage" THEN "blue" ELSE "red"
    ELSE c.color

\* Step 6 of draw_phasor: the stored dict.
PhasorRecord(name, phasor_type, start_x, start_y, end_x, end_y, color) ==
    [name |-> name,
     type |-> Lower(phasor_type),
     start_x |-> start_x,
     start_y |-> start_y,
     end_x |-> end_x,
     end_y |-> end_y,
     magnitude |-> Sqrt((end_x - start_x) * (end_x - start_x)
                        + (end_y - start_y) * (end_y - start_y)),
     angle_deg |-> Degrees(Arctan2(end_y - start_y, end_x - start_x)),
     color |-> color]

\* Mutant of Store: the registry holds live references, so a phasor that
\* starts where the overwritten entry ended follows the new entry's end.
StoreWithReflow(reg, name, record) ==
    [n \in DOMAIN reg \cup {name} |->
        IF n = name THEN record
        ELSE IF /\ name \in DOMAIN reg
                /\ reg[n].start_x = reg[name].end_x
                /\ reg[n].start_y = reg[name].end_y
             THEN [reg[n] EXCEPT !.start_x = record.end_x, !.start_y = record.end_y]
             ELSE reg[n]]

\* Mutant of Store: self.phasors.setdefault(name, record), which keeps an
\* existing entry.
StoreIfAbsent(reg, name, record) ==
    [n \in DOMAIN reg \cup {name} |-> IF n \in DOMAIN reg THEN reg[n] ELSE record]

\* self.phasors[name] = record
Store(reg, name, record) ==
    [n \in DOMAIN reg \cup {name} |-> IF n = name THEN record ELSE reg[n]]

\* draw_phasor as a function of the registry and the call:
\* the exception raised, the registry afterwards, the value returned.
\* Steps 4 and 5 (arrow and label) come before the store of step 6.
DrawPhasorResult(reg, c) ==
    LET s == ResolveStart(reg, c)
    IN  IF s.err # NoError
        THEN [err |-> s.err, phasors |-> reg, ret |-> NoneValue]
        ELSE LET e == ResolveEnd(c, s.x, s.y)
             IN  IF e.err # NoError
                 THEN [err |-> e.err, phasors |-> reg, ret |-> NoneValue]
                 ELSE IF ~c.renders
                 THEN [err |-> RenderError, phasors |-> reg, ret |-> NoneValue]
                 ELSE [err |-> NoError,
                       phasors |-> Store(reg, c.name,
                                         PhasorRecord(c.name, c.phasor_type, s.x, s.y,
                                                      e.x, e.y, ResolveColor(c))),
                       ret |-> NoneValue]

\* Mutant of Lookup: an absent name yields an empty dict instead of None.
LookupOrEmptyDict(reg, name) == IF name \in DOMAIN reg THEN reg[name] ELSE <<>>

\* self.phasors.get(name, None)
Lookup(reg, name) == IF name \in DOMAIN reg THEN reg[name] ELSE NoneValue

(***************************************************************************)
(* phasor_system.py (legacy)                                               *)
(***************************************************************************)
\* Phasor.__init__
Phasor(name, magnitude, angle, start_x, start_y) ==
    [name |-> name,
     magnitude |-> magnitude,
     angle_deg |-> angle,
     start_x |-> start_x,
     start_y |-> start_y,
     end_x |-> start_x + magnitude * Cos(Radians(angle)),
     end_y |-> start_y + magnitude * Sin(Radians(angle))]

\* The anchor resolution of the legacy draw_phasor.
LegacyResolveStart(reg, c) ==
    IF c.start_ref # "abs"
    THEN IF c.start_ref \notin DOMAIN reg
         THEN [err |-> UnknownReference]
         ELSE LET ref_phasor == reg[c.start_ref]
              IN  IF c.ref_point = "end"
                  THEN [err |-> NoError, x |-> ref_phasor.end_x, y |-> ref_phasor.end_y]
                  ELSE [err |-> NoError, x |-> ref_phasor.start_x, y |-> ref_phasor.start_y]
    ELSE [err |-> NoError, x |-> c.start_x, y |-> c.start_y]

\* self.phasors[name] = phasor
LegacyStore(reg, name, phasor) ==
    [n \in DOMAIN reg \cup {name} |-> IF n = name THEN phasor ELSE reg[n]]

\* The legacy draw_phasor as a function of the registry and the call.
\* The phasor is stored before the arrow and the label are drawn.
LegacyDrawPhasorResult(reg, c) ==
    LET s == LegacyResolveStart(reg, c)
    IN  IF s.err # NoError
        THEN [err |-> s.err, phasors |-> reg, ret |-> NoneValue]
        ELSE LET phasor == Phasor(c.name, c.magnitude, c.angle, s.x, s.y)
                 stored == LegacyStore(reg, c.name, phasor)
             IN  IF ~c.renders
                 THEN [err |-> RenderError, phasors |-> stored, ret |-> NoneValue]
                 ELSE [err |-> NoError, phasors |-> stored, ret |-> phasor]

\* self.phasors.get(name)
LegacyLookup(reg, name) == IF name \in DOMAIN reg THEN reg[name] ELSE NoneValue

(***************************************************************************)
(* The callers' arguments                                                  *)
(***************************************************************************)
Names == {"A", "B"}
RefPoints == {"end", "start", "middle"}

Polar(m, a) ==
    [given |-> {"magnitude", "angle"}, magnitude |-> m, angle |-> a, end_x |-> 0, end_y |-> 0]
Cartesian(x, y) ==
    [given |-> {"end_x", "end_y"}, magnitude |-> 0, angle |-> 0, end_x |-> x, end_y |-> y]

Absolute(x, y) ==
    [start_ref |-> "abs", ref_point |-> "end", start_x |-> x, start_y |-> y]
\* start_x, start_y are passed too, to be overridden by the reference.
RelativeTo(ref_name, ref_point) ==
    [start_ref |-> ref_name, ref_point |-> ref_point, start_x |-> 2, start_y |-> 2]

DefaultStyle == [given |-> {}, phasor_type |-> "voltage", color |-> ""]
Styles == {DefaultStyle, [given |-> {"color"}, phasor_type |-> "Current", color |-> "green"]}

Anchors ==
    {Absolute(0, 0), Absolute(1, 0)}
    \cup {RelativeTo(r, p) : r \in Names, p \in RefPoints}

Geometries == {Polar(1, 0), Polar(1, 90)}

\* The calls of Spec: polar phasors from every anchor, and a phasor given
\* by its end from the origin (as Vr in example_usage.py).
DrawCalls ==
    {DrawCall(n, g, a, s) : n \in Names, g \in Geometries, a \in Anchors, s \in Styles}
    \cup {DrawCall(n, Cartesian(0, 1), Absolute(0, 0), s) : n \in Names, s \in Styles}

\* The calls of SpecGeometry: every way of giving or omitting magnitude,
\* angle, end_x and end_y, and every polar pair of a magnitude in
\* -1..MaxMag with an axis-aligned angle.  The geometries that give both
\* end_x and end_y are passed with the start at the origin.
GeometryArgs == {"magnitude", "angle", "end_x", "end_y"}
Magnitudes == -1..MaxMag
\* The axis-aligned angles at which the code's end - start has no negative
\* residue in the direction of 180 degrees.  -180 is not among them:
\* np.sin(np.radians(-180)) is -1.2e-16, the package stores
\* angle_deg = -180.0 for it, and the grid has no sign for that 0.
Angles == {0, 90, 180, 270, -90, 360}

Partial(given) ==
    [given |-> given,
     magnitude |-> IF "magnitude" \in given THEN 1 ELSE 0,
     angle |-> IF "angle" \in given THEN 90 ELSE 0,
     end_x |-> IF "end_x" \in given THEN 1 ELSE 0,
     end_y |-> 0]

AllGeometries ==
    {Polar(m, a) : m \in Magnitudes, a \in Angles}
    \cup {Cartesian(0, 0), Cartesian(1, 0), Cartesian(0, 1)}
    \cup {Partial(g) : g \in SUBSET GeometryArgs}

GivesEnd(g) == {"end_x", "end_y"} \subseteq g.given

GeometryAnchors == {Absolute(0, 0), RelativeTo("A", "end")}

GeometryCalls ==
    {DrawCall("A", g, a, DefaultStyle) :
        g \in {h \in AllGeometries : ~GivesEnd(h)}, a \in GeometryAnchors}
    \cup {DrawCall("A", g, Absolute(0, 0), DefaultStyle) :
            g \in {h \in AllGeometries : GivesEnd(h)}}

\* The calls of SpecCartesian: phasors along the x axis, given by their end,
\* by magnitude and angle 0, or by both, from absolute and relative anchors.
AxisGeometries ==
    {Cartesian(x, 0) : x \in 0..2}
    \cup {Polar(1, 0), Polar(-1, 0), Partial(GeometryArgs)}
AxisAnchors ==
    {Absolute(0, 0), Absolute(1, 0), RelativeTo("A", "end"), RelativeTo("A", "start")}
CartesianCalls ==
    {DrawCall("A", g, a, DefaultStyle) : g \in AxisGeometries, a \in AxisAnchors}

\* The calls of SpecAbs: "abs" is also a phasor name, and start_ref "abs" is
\* passed with ref_point "end" and with ref_point "start".
AbsNames == {"A", "abs"}
AbsAnchors ==
    {Absolute(0, 0), Absolute(1, 0), RelativeTo("A", "end")}
    \cup {[Absolute(2, 2) EXCEPT !.ref_point = p] : p \in {"end", "start"}}
AbsCalls ==
    {DrawCall(n, g, a, DefaultStyle) :
        n \in AbsNames, g \in {Polar(1, 0), Polar(1, 90)}, a \in AbsAnchors}

\* The calls of SpecRender: each call with axes that draw it and with axes
\* that raise while drawing it.
RenderedCalls ==
    {DrawCall(n, g, a, DefaultStyle) :
        n \in Names, g \in {Polar(1, 0), Polar(1, 90)},
        a \in {Absolute(0, 0), RelativeTo("A", "end")}}
RenderCalls == RenderedCalls \cup {RenderFailing(c) : c \in RenderedCalls}

\* The legacy draw_phasor takes magnitude and angle as required arguments
\* and has no end_x, end_y, phasor_type.
IsLegacyCall(c) == c.given = {"magnitude", "angle"} /\ c.phasor_type = "voltage"

(***************************************************************************)
(* The state machine                                                       *)
(***************************************************************************)
Init ==
    /\ impl \in {"package", "legacy"}
    /\ phasors = EmptyRegistry
    /\ prev = EmptyRegistry
    /\ call = InitCall
    /\ ret = NoneValue
    /\ err = NoError
    /\ nops = 0
    /\ added = {}
    /\ fresh = EmptyRegistry

\* PhasorManager.draw_phasor (package)
DrawPhasor(c) ==
    /\ impl = "package"
    /\ nops < MaxOps
    /\ LET r == DrawPhasorResult(phasors, c)
       IN  /\ phasors' = r.phasors
           /\ ret' = r.ret
           /\ err' = r.err
           /\ added' = IF r.err = NoError THEN added \cup {c.name} ELSE added
    /\ fresh' = DrawPhasorResult(fresh, c).phasors
    /\ prev' = phasors
    /\ call' = c
    /\ nops' = nops + 1
    /\ UNCHANGED impl

\* PhasorManager.get_phasor (package)
GetPhasor(name) ==
    /\ impl = "package"
    /\ nops < MaxOps
    /\ ret' = Lookup(phasors, name)
    /\ err' = NoError
    /\ prev' = phasors
    /\ call' = GetCall(name)
    /\ nops' = nops + 1
    /\ UNCHANGED <<impl, phasors, added, fresh>>

\* Mutant of Cleared: clear() resets the plot and keeps the registry.
ClearedNothing(reg) == reg

\* self.phasors.clear()
Cleared(reg) == EmptyRegistry

\* PhasorManager.clear (package)
Clear ==
    /\ impl = "package"
    /\ nops < MaxOps
    /\ phasors' = Cleared(phasors)
    /\ fresh' = EmptyRegistry
    /\ added' = {}
    /\ ret' = NoneValue
    /\ err' = NoError
    /\ prev' = phasors
    /\ call' = ClearCall
    /\ nops' = nops + 1
    /\ UNCHANGED impl

\* PhasorManager.draw_phasor (legacy)
LegacyDrawPhasor(c) ==
    /\ impl = "legacy"
    /\ nops < MaxOps
    /\ IsLegacyCall(c)
    /\ LET r == LegacyDrawPhasorResult(phasors, c)
       IN  /\ phasors' = r.phasors
           /\ ret' = r.ret
           /\ err' = r.err
           /\ added' = IF r.err = NoError THEN added \cup {c.name} ELSE added
    /\ fresh' = LegacyDrawPhasorResult(fresh, c).phasors
    /\ prev' = phasors
    /\ call' = c
    /\ nops' = nops + 1
    /\ UNCHANGED impl

\* PhasorManager.get_phasor (legacy)
LegacyGetPhasor(name) ==
    /\ impl = "legacy"
    /\ nops < MaxOps
    /\ ret' = LegacyLookup(phasors, name)
    /\ err' = NoError
    /\ prev' = phasors
    /\ call' = GetCall(name)
    /\ nops' = nops + 1
    /\ UNCHANGED <<impl, phasors, added, fresh>>

\* self.phasors.clear() (legacy)
LegacyCleared(reg) == EmptyRegistry

\* PhasorManager.clear (legacy)
LegacyClear ==
    /\ impl = "legacy"
    /\ nops < MaxOps
    /\ phasors' = LegacyCleared(phasors)
    /\ fresh' = EmptyRegistry
    /\ added' = {}
    /\ ret' = NoneValue
    /\ err' = NoError
    /\ prev' = phasors
    /\ call' = ClearCall
    /\ nops' = nops + 1
    /\ UNCHANGED impl

Next ==
    \/ \E c \in DrawCalls : DrawPhasor(c)
    \/ \E n \in Names : GetPhasor(n)
    \/ Clear
    \/ \E c \in DrawCalls : LegacyDrawPhasor(c)
    \/ \E n \in Names : LegacyGetPhasor(n)
    \/ LegacyClear

Spec == Init /\ [][Next]_vars

\* The same machine, driven by the calls that vary the geometry.
NextGeometry ==
    \/ \E c \in GeometryCalls : DrawPhasor(c)
    \/ \E n \in Names : GetPhasor(n)
    \/ Clear
    \/ \E c \in GeometryCalls : LegacyDrawPhasor(c)
    \/ \E n \in Names : LegacyGetPhasor(n)
    \/ LegacyClear

SpecGeometry == Init /\ [][NextGeometry]_vars

\* The same machine, driven by the calls along the x axis.
NextCartesian ==
    \/ \E c \in CartesianCalls : DrawPhasor(c)
    \/ \E n \in Names : GetPhasor(n)
    \/ Clear
    \/ \E c \in CartesianCalls : LegacyDrawPhasor(c)
    \/ \E n \in Names : LegacyGetPhasor(n)
    \/ LegacyClear

SpecCartesian == Init /\ [][NextCartesian]_vars

\* The same machine with a phasor stored under the name "abs".
NextAbs ==
    \/ \E c \in AbsCalls : DrawPhasor(c)
    \/ \E n \in AbsNames : GetPhasor(n)
    \/ Clear
    \/ \E c \in AbsCalls : LegacyDrawPhasor(c)
    \/ \E n \in AbsNames : LegacyGetPhasor(n)
    \/ LegacyClear

SpecAbs == Init /\ [][NextAbs]_vars

\* The same machine with draw_phasor calls during which the axes raise.
NextRender ==
    \/ \E c \in RenderCalls : DrawPhasor(c)
    \/ \E n \in Names : GetPhasor(n)
    \/ Clear
    \/ \E c \in RenderCalls : LegacyDrawPhasor(c)
    \/ \E n \in Names : LegacyGetPhasor(n)
    \/ LegacyClear

SpecRender == Init /\ [][NextRender]_vars

(***************************************************************************)
(* Properties                                                              *)
(***************************************************************************)
IsDraw == call.op = "draw_phasor"
Succeeded == IsDraw /\ err = NoError
IsPolarCall == IsDraw /\ call.given \cap GeometryArgs = {"magnitude", "angle"}
HasCartesianEnd == IsDraw /\ {"end_x", "end_y"} \subseteq call.given

\* theta reduced modulo 360 into (-180, 180].
Normalized(theta) == IF (theta % 360) > 180 THEN (theta % 360) - 360 ELSE theta % 360

\* (cos theta, sin theta) for the axis-aligned angles, from the unit circle.
Direction(theta) ==
    CASE Normalized(theta) = 0 -> <<1, 0>>
      [] Normalized(theta) = 90 -> <<0, 1>>
      [] Normalized(theta) = 180 -> <<-1, 0>>
      [] Normalized(theta) = -90 -> <<0, -1>>

\* The point an anchor denotes in registry reg.
AnchorPoint(reg, c) ==
    IF c.start_ref = "abs" THEN <<c.start_x, c.start_y>>
    ELSE IF c.ref_point = "end"
         THEN <<reg[c.start_ref].end_x, reg[c.start_ref].end_y>>
         ELSE <<reg[c.start_ref].start_x, reg[c.start_ref].start_y>>

\* The end point a complete geometry denotes, from start point s.
EndPoint(c, s) ==
    IF {"end_x", "end_y"} \subseteq c.given THEN <<c.end_x, c.end_y>>
    ELSE <<s[1] + c.magnitude * Direction(c.angle)[1],
           s[2] + c.magnitude * Direction(c.angle)[2]>>

StartOf(p) == <<p.start_x, p.start_y>>
EndOf(p) == <<p.end_x, p.end_y>>

\* C1: a draw_phasor whose start_ref is not "abs" and names no phasor of the
\* registry raises the unknown-reference ValueError and leaves the registry
\* exactly as it was.
C1_UnknownReferenceKeepsRegistry ==
    (IsDraw /\ call.start_ref # "abs" /\ call.start_ref \notin DOMAIN prev)
        => (err = UnknownReference /\ phasors = prev)

C1_Witness ==
    /\ IsDraw /\ call.start_ref # "abs" /\ call.start_ref \notin DOMAIN prev
    /\ DOMAIN prev # {}
    /\ err = UnknownReference
    /\ phasors = prev

\* C2 (as claimed): a draw_phasor that is given neither both of end_x, end_y
\* nor both of magnitude, angle, and whose anchor resolves, raises the
\* missing-geometry ValueError and leaves the registry as it was.
C2_IncompleteGeometryIsMissingGeometry ==
    (/\ IsDraw /\ impl = "package"
     /\ (call.start_ref = "abs" \/ call.start_ref \in DOMAIN prev)
     /\ ~({"end_x", "end_y"} \subseteq call.given)
     /\ ~({"magnitude", "angle"} \subseteq call.given))
        => (err = MissingGeometry /\ phasors = prev)

\* C3: a successful draw_phasor of B anchored on a stored phasor A starts B
\* at A's stored end (ref_point "end") or A's stored start (ref_point
\* "start"), as A was when the call was made, whatever start_x, start_y
\* the caller passed.
C3_StartCopiedFromReference ==
    (/\ Succeeded /\ call.start_ref # "abs" /\ call.start_ref \in DOMAIN prev
     /\ call.name \in DOMAIN phasors)
        => /\ call.ref_point = "end"
                => StartOf(phasors[call.name]) = EndOf(prev[call.start_ref])
           /\ call.ref_point = "start"
                => StartOf(phasors[call.name]) = StartOf(prev[call.start_ref])

C3_Witness ==
    /\ Succeeded /\ call.start_ref # "abs" /\ call.start_ref \in DOMAIN prev
    /\ call.ref_point = "end"
    /\ StartOf(phasors[call.name]) = EndOf(prev[call.start_ref])
    /\ EndOf(prev[call.start_ref]) # StartOf(prev[call.start_ref])
    /\ StartOf(phasors[call.name]) # <<call.start_x, call.start_y>>

\* C4: a successful draw_phasor(name, ...) leaves every other phasor of the
\* registry as it was, also a phasor whose start had been copied from the
\* entry that this call overwrites.
C4_OtherPhasorsUnchanged ==
    Succeeded
        => \A n \in DOMAIN prev \ {call.name} :
               n \in DOMAIN phasors /\ phasors[n] = prev[n]

C4_Witness ==
    /\ Succeeded /\ call.name \in DOMAIN prev
    /\ EndOf(phasors[call.name]) # EndOf(prev[call.name])
    /\ \E n \in DOMAIN prev \ {call.name} :
           /\ StartOf(prev[n]) = EndOf(prev[call.name])
           /\ StartOf(prev[n]) # StartOf(prev[call.name])
           /\ phasors[n] = prev[n]

\* C5: every entry is stored under its own name, and a successful
\* draw_phasor with a name the registry already holds replaces that entry:
\* the names of the registry are the same, the entry is the newly resolved
\* phasor, and the record it replaced is no longer in the registry.
C5_OverwriteReplacesEntry ==
    /\ \A n \in DOMAIN phasors : phasors[n].name = n
    /\ (Succeeded /\ call.name \in DOMAIN prev)
        => /\ DOMAIN phasors = DOMAIN prev
           /\ Cardinality(DOMAIN phasors) = Cardinality(DOMAIN prev)
           /\ StartOf(phasors[call.name]) = AnchorPoint(prev, call)
           /\ EndOf(phasors[call.name]) = EndPoint(call, AnchorPoint(prev, call))
           /\ phasors[call.name] # prev[call.name]
                => \A n \in DOMAIN phasors : phasors[n] # prev[call.name]

C5_Witness ==
    /\ Succeeded /\ call.name \in DOMAIN prev
    /\ Cardinality(DOMAIN prev) = 2
    /\ EndOf(phasors[call.name]) # EndOf(prev[call.name])

C7_ClearIsFresh ==
    /\ call.op = "clear" => phasors = EmptyRegistry
    /\ phasors = fresh
    /\ DOMAIN phasors = added
    /\ (IsDraw /\ call.start_ref # "abs" /\ call.start_ref \notin added)
        => err = UnknownReference

C7_Witness ==
    /\ call.op = "clear"
    /\ Cardinality(DOMAIN prev) = 2
    /\ phasors = EmptyRegistry

\* C8 (as claimed): a successful draw_phasor returns the phasor it stored,
\* the value get_phasor(name) returns right afterwards.
C8_DrawReturnsStoredPhasor ==
    Succeeded => (ret # NoneValue /\ ret = phasors[call.name])

\* C9: a polar phasor of magnitude m >= 0 (m = 0 included) and angle theta
\* anchored at the absolute origin is stored with
\* end = (m cos theta, m sin theta), magnitude m and angle_deg theta reduced
\* modulo 360 into (-180, 180].
PolarAtOrigin ==
    /\ Succeeded /\ IsPolarCall
    /\ call.start_ref = "abs" /\ call.start_x = 0 /\ call.start_y = 0
    /\ call.magnitude >= 0

C9_PolarAtOriginRecovered ==
    PolarAtOrigin
        => /\ EndOf(phasors[call.name])
                = <<call.magnitude * Direction(call.angle)[1],
                    call.magnitude * Direction(call.angle)[2]>>
           /\ phasors[call.name].magnitude = call.magnitude
           /\ phasors[call.name].angle_deg = Normalized(call.angle)

\* C10 (as claimed): every stored phasor's magnitude is the length of
\* end - start, so never negative, and its angle_deg is atan2 of end - start
\* in degrees, in (-180, 180], whatever magnitude and angle were passed.
C10_DerivedFromEndpoints ==
    \A n \in DOMAIN phasors :
        LET p == phasors[n]
            dx == p.end_x - p.start_x
            dy == p.end_y - p.start_y
        IN  /\ p.magnitude >= 0
            /\ p.magnitude * p.magnitude = dx * dx + dy * dy
            /\ p.angle_deg > -180 /\ p.angle_deg <= 180
            /\ (dx # 0 \/ dy # 0)
                 => <<dx, dy>> = <<p.magnitude * Direction(p.angle_deg)[1],
                                   p.magnitude * Direction(p.angle_deg)[2]>>
            /\ (dx = 0 /\ dy = 0) => p.angle_deg = 0

\* C11: a successful draw_phasor that is given both end_x and end_y stores
\* exactly (end_x, end_y) as the end, for an absolute and for a relative
\* anchor and whether or not magnitude and angle are given too, and takes
\* the start from the anchor.
C11_CartesianEndStoredAsGiven ==
    (Succeeded /\ HasCartesianEnd
     /\ (call.start_ref = "abs" \/ call.start_ref \in DOMAIN prev))
        => /\ EndOf(phasors[call.name]) = <<call.end_x, call.end_y>>
           /\ StartOf(phasors[call.name]) = AnchorPoint(prev, call)

\* Both shapes given, a relative anchor, and a polar pair that would have
\* led elsewhere.
C11_Witness ==
    /\ Succeeded /\ HasCartesianEnd
    /\ {"magnitude", "angle"} \subseteq call.given
    /\ call.start_ref # "abs" /\ call.start_ref \in DOMAIN prev
    /\ EndOf(phasors[call.name]) = <<call.end_x, call.end_y>>
    /\ StartOf(phasors[call.name]) = EndOf(prev[call.start_ref])
    /\ StartOf(phasors[call.name]) # <<call.start_x, call.start_y>>
    /\ <<call.end_x, call.end_y>>
           # <<phasors[call.name].start_x + call.magnitude * Direction(call.angle)[1],
               phasors[call.name].start_y + call.magnitude * Direction(call.angle)[2]>>

\* C12: a draw_phasor whose start_ref is "abs" never fails as an unknown
\* reference and, when it succeeds, starts at the caller's start_x, start_y,
\* also when the registry holds a phasor named "abs"; get_phasor("abs")
\* returns that phasor.
C12_AbsIsReserved ==
    /\ (IsDraw /\ call.start_ref = "abs")
            => /\ err # UnknownReference
               /\ Succeeded
                    => StartOf(phasors[call.name]) = <<call.start_x, call.start_y>>
    /\ (call.op = "get_phasor" /\ call.name = "abs" /\ "abs" \in DOMAIN prev)
            => ret = prev["abs"]

\* A phasor named "abs" is stored, and a draw_phasor anchored on "abs" starts
\* at the caller's point, which is neither end of the stored phasor.
C12_Witness ==
    /\ Succeeded /\ call.start_ref = "abs"
    /\ "abs" \in DOMAIN prev
    /\ StartOf(phasors[call.name]) = <<call.start_x, call.start_y>>
    /\ StartOf(prev["abs"]) # <<call.start_x, call.start_y>>
    /\ EndOf(prev["abs"]) # <<call.start_x, call.start_y>>

\* C13: a draw_phasor anchored on a stored phasor with a ref_point other
\* than "end", whether "start" or any other string, succeeds and starts at
\* the stored start of that phasor.
C13_RefPointNotValidated ==
    (/\ IsDraw /\ call.renders
     /\ call.start_ref # "abs" /\ call.start_ref \in DOMAIN prev
     /\ call.ref_point # "end")
        => /\ err = NoError
           /\ call.name \in DOMAIN phasors
           /\ StartOf(phasors[call.name]) = StartOf(prev[call.start_ref])

\* ref_point is neither "end" nor "start", and the start of the referenced
\* phasor is neither its end nor the caller's start_x, start_y.
C13_Witness ==
    /\ Succeeded
    /\ call.start_ref # "abs" /\ call.start_ref \in DOMAIN prev
    /\ call.ref_point \notin {"end", "start"}
    /\ StartOf(phasors[call.name]) = StartOf(prev[call.start_ref])
    /\ StartOf(prev[call.start_ref]) # EndOf(prev[call.start_ref])
    /\ StartOf(prev[call.start_ref]) # <<call.start_x, call.start_y>>

\* C14: a draw_phasor during which the axes raise leaves the registry as it
\* was before the call, with no new and no changed entry.
C14_RenderFailureKeepsRegistry ==
    (IsDraw /\ err = RenderError) => phasors = prev

====
